---- MODULE Spec2Model ----
(***************************************************************************)
(* A model of the GraphQL resolver layer of api-server                     *)
(* (src/api-server/src/graphql/schema.rs): the query and mutation          *)
(* resolvers, the role guards attached to them, and the relational store   *)
(* (users, customers, suppliers, products) they read and write.            *)
(*                                                                         *)
(* The token service and the role guard (crate::auth::auth) and the ORM    *)
(* entities are not part of schema.rs; they are modelled from their        *)
(* documented contract.  The store, the hashing and the signing are        *)
(* modelled as available: their failures are opaque pass-throughs (`?`)    *)
(* and are not modelled.                                                   *)
(***************************************************************************)
EXTENDS Integers, Sequences, FiniteSets, TLC

VARIABLES
    users,        \* the users table: a set of rows
    customers,    \* the customers table
    suppliers,    \* the suppliers table
    products,     \* the products table
    nextUserId,   \* the users table's id sequence
    nextProfId,   \* the id sequence of the customers/suppliers tables
    issued,       \* the tokens signed by this process so far
    now,          \* the clock the token expiry is measured against
    inflight,     \* register_user requests suspended before their insert
    nullEq,       \* how the store evaluates `column = NULL`
    last          \* the last completed request and its response

vars == <<users, customers, suppliers, products, nextUserId, nextProfId,
          issued, now, inflight, nullEq, last>>

----------------------------------------------------------------------------
(* Bounds of the model *)

\* rows the users table may hold
MaxUsers == 2
MaxProfiles == 1
MaxClock == 1
MaxProducts == 2

----------------------------------------------------------------------------
(* Values *)

ROLE_CUSTOMER == "customer"
ROLE_SUPPLIER == "supplier"

Emails == {"a@x.io", "b@x.io"}
RoleStrings == {ROLE_CUSTOMER, ROLE_SUPPLIER, "admin"}
StrongPasswords == {"Str0ng#Pass1"}
Passwords == StrongPasswords \cup {"weak"}
Names == {"Ann"}
Phones == {"555"}
Reqs == {1, 2}
Null == -1

Ok(v) == [kind |-> "ok", val |-> v]
Err(m) == [kind |-> "err", msg |-> m]
Panic == [kind |-> "panic"]

----------------------------------------------------------------------------
(* Conversions *)

\* i32::to_string: the decimal digits of n, most significant first
RECURSIVE DecStr(_)
DecStr(n) == IF n < 10 THEN <<n>> ELSE Append(DecStr(n \div 10), n % 10)

RECURSIVE DigitsValue(_)
DigitsValue(s) ==
    IF Len(s) = 0 THEN 0
    ELSE 10 * DigitsValue(SubSeq(s, 1, Len(s) - 1)) + s[Len(s)]

\* str::parse::<i32>: fails on the empty string and on a non-digit
ParseI32(s) ==
    IF Len(s) > 0 /\ \A i \in 1..Len(s) : s[i] \in 0..9
    THEN Ok(DigitsValue(s))
    ELSE Err("ParseIntError")

\* UserRole::to_value
UserRoleToValue(r) == IF r = "Customer" THEN ROLE_CUSTOMER ELSE ROLE_SUPPLIER

\* the match on input.role.as_str() in register_user
ParseRole(s) ==
    IF s = ROLE_CUSTOMER THEN Ok("Customer")
    ELSE IF s = ROLE_SUPPLIER THEN Ok("Supplier")
    ELSE Err("Invalid role")

----------------------------------------------------------------------------
(* The token service (crate::auth::auth::Auth) *)

\* the lifetime of a token, in clock ticks
TokenTTL == 1

CreateToken(user_id, role, t) ==
    [user_id |-> DecStr(user_id), role |-> role, exp |-> t + TokenTTL,
     sig |-> TRUE]

\* a token this process did not sign
ForgedToken == [user_id |-> <<1>>, role |-> ROLE_CUSTOMER,
                exp |-> MaxClock + TokenTTL + 1, sig |-> FALSE]

VerifyToken(tok, t) ==
    IF tok.sig /\ t < tok.exp
    THEN Ok([user_id |-> tok.user_id, role |-> tok.role])
    ELSE Err("InvalidToken")

CheckPasswordStrength(p) ==
    IF p \in StrongPasswords THEN Ok("strong") ELSE Err("PolicyError")

HashPassword(p) == [enc |-> "phc", pw |-> p]

LegacyHash == [enc |-> "legacy", pw |-> "Str0ng#Pass1"]

VerifyPassword(p, h) ==
    IF h.enc = "phc" THEN Ok(h.pw = p) ELSE Err("UnreadableHash")

\* RoleGuard::check
RoleGuardCheck(roles, tok, t) ==
    LET v == VerifyToken(tok, t) IN
    IF v.kind = "err" THEN Err("Unauthenticated")
    ELSE IF v.val.role \notin roles THEN Err("Forbidden")
    ELSE Ok("pass")

----------------------------------------------------------------------------
(* The store *)

\* Select::one: the first matching row, or None
FindOne(rows) ==
    IF rows = {} THEN {[some |-> FALSE]}
    ELSE {[some |-> TRUE, row |-> r] : r \in rows}

\* Option::unwrap
Unwrap(o) == IF o.some THEN Ok(o.row) ELSE Panic

\* Column::UserId.eq(<String>): the integer column against the token's
\* string user_id, which the store coerces
UserIdEq(col, s) == DecStr(col) = s

\* From<users::Model> for Users
UsersFromModel(u) ==
    [user_id |-> u.user_id, email |-> u.email, password |-> u.password,
     role |-> UserRoleToValue(u.role)]

UserRow(id, email, hash, role) ==
    [user_id |-> id, email |-> email, password |-> hash, role |-> role]

Store == <<users, customers, suppliers, products>>

Response(op, arg, out, acc) == [op |-> op, arg |-> arg, out |-> out, acc |-> acc]

----------------------------------------------------------------------------
(* Role guards *)

GuardedOps == {"get_user", "customer_profile", "supplier_profile",
               "register_customer", "register_supplier"}

\* customer_profile and register_customer given get_user's guard
GuardOfLax(op) ==
    CASE op = "get_user" -> {ROLE_CUSTOMER, ROLE_SUPPLIER}
      [] op = "customer_profile" -> {ROLE_CUSTOMER, ROLE_SUPPLIER}
      [] op = "supplier_profile" -> {ROLE_SUPPLIER}
      [] op = "register_customer" -> {ROLE_CUSTOMER, ROLE_SUPPLIER}
      [] op = "register_supplier" -> {ROLE_SUPPLIER}

\* the guards of register_customer and register_supplier exchanged
GuardOfSwapped(op) ==
    CASE op = "get_user" -> {ROLE_CUSTOMER, ROLE_SUPPLIER}
      [] op = "customer_profile" -> {ROLE_CUSTOMER}
      [] op = "supplier_profile" -> {ROLE_SUPPLIER}
      [] op = "register_customer" -> {ROLE_SUPPLIER}
      [] op = "register_supplier" -> {ROLE_CUSTOMER}

\* the sets given to role_guard! on each resolver
GuardOf(op) ==
    CASE op = "get_user" -> {ROLE_CUSTOMER, ROLE_SUPPLIER}
      [] op = "customer_profile" -> {ROLE_CUSTOMER}
      [] op = "supplier_profile" -> {ROLE_SUPPLIER}
      [] op = "register_customer" -> {ROLE_CUSTOMER}
      [] op = "register_supplier" -> {ROLE_SUPPLIER}

\* the tokens a caller can present
PresentableTokens == issued \cup {ForgedToken}

----------------------------------------------------------------------------
(* QueryRoot *)

\* get_user's filter on users
GetUserRows(us, ident) == {u \in us : UserIdEq(u.user_id, ident.user_id)}

\* the body shared by get_user, customer_profile and supplier_profile:
\* verify_token(&token)?, find().filter(UserId.eq(..)).one(), unwrap()
LookupByToken(op, table, tok) ==
    LET g == RoleGuardCheck(GuardOf(op), tok, now)
        v == VerifyToken(tok, now)
    IN  /\ UNCHANGED <<users, customers, suppliers, products, nextUserId,
                       nextProfId, issued, now, inflight, nullEq>>
        /\ IF g.kind = "err"
           THEN last' = Response(op, tok, g, {})
           ELSE IF v.kind = "err"
           THEN last' = Response(op, tok, v, {})
           ELSE \E o \in FindOne(GetUserRows(table, v.val)) :
                  last' = Response(op, tok, Unwrap(o), {"find"})

GetUser(tok) ==
    LET g == RoleGuardCheck(GuardOf("get_user"), tok, now)
        v == VerifyToken(tok, now)
    IN  /\ UNCHANGED <<users, customers, suppliers, products, nextUserId,
                       nextProfId, issued, now, inflight, nullEq>>
        /\ IF g.kind = "err"
           THEN last' = Response("get_user", tok, g, {})
           ELSE IF v.kind = "err"
           THEN last' = Response("get_user", tok, v, {})
           ELSE \E o \in FindOne(GetUserRows(users, v.val)) :
                  last' = Response("get_user", tok,
                      IF o.some THEN Ok(UsersFromModel(o.row)) ELSE Panic,
                      {"find"})

CustomerProfile(tok) == LookupByToken("customer_profile", customers, tok)

SupplierProfile(tok) == LookupByToken("supplier_profile", suppliers, tok)

----------------------------------------------------------------------------
(* MutationRoot *)

\* register_user without its duplicate-email lookup
RegisterUserValidateNoLookup(us, input) ==
    IF ParseRole(input.role).kind = "err"
    THEN ParseRole(input.role)
    ELSE IF CheckPasswordStrength(input.password).kind = "err"
    THEN CheckPasswordStrength(input.password)
    ELSE Ok([email |-> input.email,
             password |-> HashPassword(input.password),
             role |-> ParseRole(input.role).val])

\* register_user checking the password before the role
RegisterUserValidateSwapped(us, input) ==
    IF \E u \in us : u.email = input.email
    THEN Err("User already exists")
    ELSE IF CheckPasswordStrength(input.password).kind = "err"
    THEN CheckPasswordStrength(input.password)
    ELSE IF ParseRole(input.role).kind = "err"
    THEN ParseRole(input.role)
    ELSE Ok([email |-> input.email,
             password |-> HashPassword(input.password),
             role |-> ParseRole(input.role).val])

\* register_user up to the insert: the duplicate-email lookup, the role
\* match and the password strength check, in that order
RegisterUserValidate(us, input) ==
    IF \E u \in us : u.email = input.email
    THEN Err("User already exists")
    ELSE IF ParseRole(input.role).kind = "err"
    THEN ParseRole(input.role)
    ELSE IF CheckPasswordStrength(input.password).kind = "err"
    THEN CheckPasswordStrength(input.password)
    ELSE Ok([email |-> input.email,
             password |-> HashPassword(input.password),
             role |-> ParseRole(input.role).val])

\* an insert that leaves the table alone when the email is already stored
InsertUserUnique(us, id, m) ==
    IF \E u \in us : u.email = m.email THEN us
    ELSE us \cup {UserRow(id, m.email, m.password, m.role)}

\* users::Entity::insert(user).exec_with_returning(db)
InsertUser(us, id, m) == us \cup {UserRow(id, m.email, m.password, m.role)}

\* register_user signing the customer role whatever the inserted row holds
RegisterUserTokenFixedRole(row, t) ==
    CreateToken(row.user_id, ROLE_CUSTOMER, t)

\* the token register_user returns for the inserted row
RegisterUserToken(row, t) ==
    CreateToken(row.user_id, UserRoleToValue(row.role), t)

RegisterUserInputs ==
    [email : Emails, role : RoleStrings, password : Passwords]

\* register_user run to completion without interleaving
RegisterUser(input) ==
    LET v == RegisterUserValidate(users, input)
        row == UserRow(nextUserId, v.val.email, v.val.password, v.val.role)
    IN  /\ v.kind = "err" \/ Cardinality(users) < MaxUsers
        /\ UNCHANGED <<customers, suppliers, products, nextProfId, now,
                       inflight, nullEq>>
        /\ IF v.kind = "err"
           THEN /\ last' = Response("register_user", input, v, {"find"})
                /\ UNCHANGED <<users, nextUserId, issued>>
           ELSE /\ users' = InsertUser(users, nextUserId, v.val)
                /\ nextUserId' = nextUserId + 1
                /\ issued' = issued \cup {RegisterUserToken(row, now)}
                /\ last' = Response("register_user", input,
                                    Ok(RegisterUserToken(row, now)),
                                    {"find", "insert"})

\* login reporting an unreadable hash as a wrong password
LoginOutcomeCollapsed(user, password, t) ==
    LET v == VerifyPassword(password, user.password) IN
    IF v.kind = "ok" /\ v.val
    THEN Ok(CreateToken(user.user_id, user.role, t))
    ELSE Err("Invalid password")

\* the match on verify_password in login
LoginOutcome(user, password, t) ==
    LET v == VerifyPassword(password, user.password) IN
    IF v.kind = "ok"
    THEN IF v.val
         THEN Ok(CreateToken(user.user_id, user.role, t))
         ELSE Err("Invalid password")
    ELSE Err("Password not readable, please reset password")

LoginInputs == [email : Emails, password : Passwords]

Login(input) ==
    \E o \in FindOne({u \in users : u.email = input.email}) :
        LET out == IF o.some
                   THEN LoginOutcome(UsersFromModel(o.row), input.password, now)
                   ELSE Panic
        IN  /\ UNCHANGED <<users, customers, suppliers, products, nextUserId,
                           nextProfId, now, inflight, nullEq>>
            /\ issued' = IF out.kind = "ok" THEN issued \cup {out.val}
                         ELSE issued
            /\ last' = Response("login", input, out, {"find"})

\* the user_id register_customer and register_supplier store:
\* verify_token(&token)?.user_id.parse::<i32>()?
ProfileUserId(tok, t) ==
    LET v == VerifyToken(tok, t) IN
    IF v.kind = "err" THEN v ELSE ParseI32(v.val.user_id)

RegisterCustomer(tok, first, lastName) ==
    LET g == RoleGuardCheck(GuardOf("register_customer"), tok, now)
        uid == ProfileUserId(tok, now)
        row == [id |-> nextProfId, user_id |-> uid.val,
                first_name |-> first, last_name |-> lastName]
    IN  /\ \/ g.kind = "err"
           \/ Cardinality(customers) + Cardinality(suppliers) < MaxProfiles
        /\ UNCHANGED <<users, suppliers, products, nextUserId, issued, now,
                       inflight, nullEq>>
        /\ IF g.kind = "err" \/ uid.kind = "err"
           THEN /\ last' = Response("register_customer", tok,
                                    IF g.kind = "err" THEN g ELSE uid, {})
                /\ UNCHANGED <<customers, nextProfId>>
           ELSE /\ customers' = customers \cup {row}
                /\ nextProfId' = nextProfId + 1
                /\ last' = Response("register_customer", tok, Ok(row),
                                    {"insert"})

RegisterSupplier(tok, phone) ==
    LET g == RoleGuardCheck(GuardOf("register_supplier"), tok, now)
        uid == ProfileUserId(tok, now)
        row == [id |-> nextProfId, user_id |-> uid.val,
                contact_phone |-> phone]
    IN  /\ \/ g.kind = "err"
           \/ Cardinality(customers) + Cardinality(suppliers) < MaxProfiles
        /\ UNCHANGED <<users, customers, products, nextUserId, issued, now,
                       inflight, nullEq>>
        /\ IF g.kind = "err" \/ uid.kind = "err"
           THEN /\ last' = Response("register_supplier", tok,
                                    IF g.kind = "err" THEN g ELSE uid, {})
                /\ UNCHANGED <<suppliers, nextProfId>>
           ELSE /\ suppliers' = suppliers \cup {row}
                /\ nextProfId' = nextProfId + 1
                /\ last' = Response("register_supplier", tok, Ok(row),
                                    {"insert"})

\* time passes
Tick ==
    /\ now < MaxClock
    /\ now' = now + 1
    /\ UNCHANGED <<users, customers, suppliers, products, nextUserId,
                   nextProfId, issued, inflight, nullEq, last>>

----------------------------------------------------------------------------
(* Requests one after another *)

Idle == [pc |-> "idle"]

NoRequest == Response("none", "none", Ok("none"), {})

\* a row written before the password hashing was introduced
LegacyUser == UserRow(9, "a@x.io", LegacyHash, "Customer")

Init ==
    /\ \/ users = {} /\ nextUserId = 1
       \/ users = {LegacyUser} /\ nextUserId = 10
    /\ customers = {}
    /\ suppliers = {}
    /\ products = {}
    /\ nextProfId = 1
    /\ issued = {}
    /\ now = 0
    /\ inflight = [r \in Reqs |-> Idle]
    /\ nullEq = "unknown"
    /\ last = NoRequest

Next ==
    \/ \E input \in RegisterUserInputs : RegisterUser(input)
    \/ \E input \in LoginInputs : Login(input)
    \/ \E tok \in PresentableTokens : GetUser(tok)
    \/ \E tok \in PresentableTokens : CustomerProfile(tok)
    \/ \E tok \in PresentableTokens : SupplierProfile(tok)
    \/ \E tok \in PresentableTokens, f \in Names, l \in Names :
           RegisterCustomer(tok, f, l)
    \/ \E tok \in PresentableTokens, p \in Phones : RegisterSupplier(tok, p)
    \/ Tick

Spec == Init /\ [][Next]_vars

----------------------------------------------------------------------------
(* register_user requests that interleave: each request suspends at the    *)
(* await of its duplicate-email lookup and at the await of its insert      *)

InsertsInFlight == Cardinality({r \in Reqs : inflight[r].pc = "insert"})

\* register_user from its start to the await of the insert
RegisterUserCheck(r, input) ==
    LET v == RegisterUserValidate(users, input) IN
    /\ inflight[r].pc = "idle"
    /\ v.kind = "err" \/ Cardinality(users) + InsertsInFlight < MaxUsers
    /\ UNCHANGED <<users, customers, suppliers, products, nextUserId,
                   nextProfId, issued, now, nullEq>>
    /\ IF v.kind = "err"
       THEN /\ last' = Response("register_user", input, v, {"find"})
            /\ UNCHANGED inflight
       ELSE /\ inflight' = [inflight EXCEPT ![r] =
                               [pc |-> "insert", input |-> input, m |-> v.val]]
            /\ UNCHANGED last

\* register_user from the insert to its return
RegisterUserInsert(r) ==
    LET m == inflight[r].m
        row == UserRow(nextUserId, m.email, m.password, m.role)
    IN  /\ inflight[r].pc = "insert"
        /\ users' = InsertUser(users, nextUserId, m)
        /\ nextUserId' = nextUserId + 1
        /\ issued' = issued \cup {RegisterUserToken(row, now)}
        /\ last' = Response("register_user", inflight[r].input,
                            Ok(RegisterUserToken(row, now)),
                            {"find", "insert"})
        /\ inflight' = [inflight EXCEPT ![r] = Idle]
        /\ UNCHANGED <<customers, suppliers, products, nextProfId, now,
                       nullEq>>

NextConc ==
    \/ \E r \in Reqs, input \in RegisterUserInputs :
           RegisterUserCheck(r, input)
    \/ \E r \in Reqs : RegisterUserInsert(r)
    \/ \E input \in LoginInputs : Login(input)
    \/ Tick

SpecConc == Init /\ [][NextConc]_vars

----------------------------------------------------------------------------
(* products_with_id *)

CategoryIds == {1, 2}
SupplierIds == {2, 3}
BaseIds == {5}

ProductRows ==
    [product_id : 1..MaxProducts, category_id : CategoryIds,
     supplier_id : SupplierIds, base_product_id : BaseIds \cup {Null}]

\* a filter built from the given arguments only
ProductsFilterGivenOnly(category_id, supplier_id, base_product_id) ==
    {term \in {<<"category_id", category_id>>, <<"supplier_id", supplier_id>>,
               <<"base_product_id", base_product_id>>} : term[2] # Null}

\* the predicate products_with_id gives to filter(): a conjunction of
\* column = value terms; a None argument is the value NULL
ProductsFilter(category_id, supplier_id, base_product_id) ==
    CASE category_id # Null /\ supplier_id = Null /\ base_product_id = Null ->
             {<<"category_id", category_id>>}
      [] category_id = Null /\ supplier_id # Null /\ base_product_id = Null ->
             {<<"supplier_id", supplier_id>>}
      [] category_id = Null /\ supplier_id = Null /\ base_product_id # Null ->
             {<<"base_product_id", base_product_id>>}
      [] OTHER ->
             {<<"category_id", category_id>>, <<"supplier_id", supplier_id>>,
              <<"base_product_id", base_product_id>>}

\* the store's `column = value`: with a NULL value the comparison is never
\* true when the store renders it as `= NULL`, and is the NULL test when
\* the store renders it as `IS NULL`
ColumnEq(col, v, mode) ==
    IF v = Null THEN mode = "is_null" /\ col = Null
    ELSE col # Null /\ col = v

\* Select::all under a filter
FindAll(rows, filter, mode) ==
    {p \in rows : \A term \in filter : ColumnEq(p[term[1]], term[2], mode)}

ProductsWithId(category_id, supplier_id, base_product_id) ==
    LET filter == ProductsFilter(category_id, supplier_id, base_product_id)
    IN  /\ last' = [op |-> "products_with_id",
                    arg |-> [category_id |-> category_id,
                             supplier_id |-> supplier_id,
                             base_product_id |-> base_product_id],
                    out |-> Ok(FindAll(products, filter, nullEq)),
                    acc |-> {"find"},
                    filter |-> filter]
        /\ UNCHANGED <<users, customers, suppliers, products, nextUserId,
                       nextProfId, issued, now, inflight, nullEq>>

InitProducts ==
    /\ products \in {ps \in SUBSET ProductRows :
                       /\ Cardinality(ps) <= MaxProducts
                       /\ \A p, q \in ps : p.product_id = q.product_id => p = q}
    /\ nullEq \in {"unknown", "is_null"}
    /\ users = {}
    /\ customers = {}
    /\ suppliers = {}
    /\ nextUserId = 1
    /\ nextProfId = 1
    /\ issued = {}
    /\ now = 0
    /\ inflight = [r \in Reqs |-> Idle]
    /\ last = NoRequest

NextProducts ==
    \E c \in CategoryIds \cup {Null}, s \in SupplierIds \cup {Null},
       b \in BaseIds \cup {Null} : ProductsWithId(c, s, b)

SpecProducts == InitProducts /\ [][NextProducts]_vars

----------------------------------------------------------------------------
(* Properties *)

\* a request of operation op completed in this step
Requested(op) == last' # last /\ last'.op = op

\* C1: a guarded operation invoked with a valid token whose role is not in
\* the operation's accepted set fails with the authorization error, and
\* its store read or insert does not happen: the store is unchanged.
C1_Accepted(op) ==
    CASE op = "get_user" -> {"customer", "supplier"}
      [] op \in {"customer_profile", "register_customer"} -> {"customer"}
      [] op \in {"supplier_profile", "register_supplier"} -> {"supplier"}

C1_GuardRejectsBeforeStore ==
    [][\A op \in GuardedOps :
         (/\ Requested(op)
          /\ VerifyToken(last'.arg, now).kind = "ok"
          /\ VerifyToken(last'.arg, now).val.role \notin C1_Accepted(op))
         => /\ last'.out = Err("Forbidden")
            /\ last'.acc = {}
            /\ UNCHANGED <<users, customers, suppliers, products>>]_vars

C1_Witness ==
    /\ last.op = "register_customer"
    /\ last.out = Err("Forbidden")
    /\ last.arg \in issued

\* C2: with register_user calls run one after another, a register_user
\* whose email already belongs to a stored row fails with the
\* duplicate-email error and creates no row, and no two user rows ever
\* share an email.
UniqueEmails == \A u, v \in users : u.email = v.email => u = v

C2_SequentialDuplicateRejected ==
    /\ []UniqueEmails
    /\ [][(/\ Requested("register_user")
           /\ \E u \in users : u.email = last'.arg.email)
          => /\ last'.out = Err("User already exists")
             /\ users' = users]_vars

C2_Witness ==
    /\ last.op = "register_user"
    /\ last.out = Err("User already exists")
    /\ \E u \in users : u.email = last.arg.email /\ u.password.enc = "phc"

\* C3: register_user inserts a row only after the three validations have
\* passed, in the order email not stored, role recognised, password strong
\* enough; a failed validation returns its error with the users table
\* unchanged and no token issued.
C3_ValidateThenInsert ==
    [][Requested("register_user") =>
         LET inp == last'.arg
             dup == \E u \in users : u.email = inp.email
             badRole == inp.role \notin {"customer", "supplier"}
             weak == inp.password \notin StrongPasswords
         IN  /\ dup => last'.out = Err("User already exists")
             /\ (~dup /\ badRole) => last'.out = Err("Invalid role")
             /\ (~dup /\ ~badRole /\ weak) => last'.out = Err("PolicyError")
             /\ (dup \/ badRole \/ weak) =>
                    /\ last'.out.kind = "err"
                    /\ users' = users
                    /\ issued' = issued
             /\ (~dup /\ ~badRole /\ ~weak) =>
                    /\ last'.out.kind = "ok"
                    /\ \E u \in users' \ users : u.email = inp.email]_vars

C3_Witness ==
    /\ last.op = "register_user"
    /\ last.out = Err("PolicyError")
    /\ last.arg.password = "weak"
    /\ last.arg.role = "customer"

\* C4: products_with_id filters on the one given field when exactly one of
\* the three filters is given, and otherwise (none, two or three given) on
\* all three fields, an absent filter compared as null.
C4_Columns == {"category_id", "supplier_id", "base_product_id"}

C4_AsymmetricFilter ==
    last.op = "products_with_id" =>
        LET given == {c \in C4_Columns : last.arg[c] # Null} IN
        IF Cardinality(given) = 1
        THEN last.filter = {<<c, last.arg[c]>> : c \in given}
        ELSE last.filter = {<<c, last.arg[c]>> : c \in C4_Columns}

C4_Witness ==
    /\ last.op = "products_with_id"
    /\ \A c \in C4_Columns : last.arg[c] = Null
    /\ Cardinality(last.filter) = 3

\* C5: products_with_id called with two or more filters returns exactly the
\* stored products that match every given filter.  Stated for the store
\* that treats `= NULL` as the NULL test, the reading most favourable to
\* the claim: under the other one a two-filter query returns nothing.
C5_AndOverGivenFilters ==
    (/\ last.op = "products_with_id"
     /\ nullEq = "is_null"
     /\ Cardinality({c \in C4_Columns : last.arg[c] # Null}) >= 2)
    => last.out.val =
         {p \in products :
            \A c \in C4_Columns : last.arg[c] # Null => p[c] = last.arg[c]}

\* C6: login on a stored email returns a token exactly when the stored hash
\* is readable and the password verifies, the password-mismatch error when
\* the hash is readable and the password is wrong, and another error, the
\* unreadable-hash one, when the hash is unreadable; no token is issued in
\* the two error cases.
C6_LoginOutcomes ==
    [][Requested("login") =>
         \A u \in users : u.email = last'.arg.email =>
             LET v == VerifyPassword(last'.arg.password, u.password) IN
             /\ (last'.out.kind = "ok") <=> (v.kind = "ok" /\ v.val)
             /\ (v.kind = "ok" /\ ~v.val) =>
                    last'.out = Err("Invalid password")
             /\ v.kind = "err" =>
                    /\ last'.out.kind = "err"
                    /\ last'.out # Err("Invalid password")
             /\ last'.out.kind = "err" => issued' = issued]_vars

C6_Witness ==
    /\ last.op = "login"
    /\ last.out.kind = "err"
    /\ last.out # Err("Invalid password")
    /\ \E u \in users : u.email = last.arg.email /\ u.password.enc # "phc"

\* C7: login with an email that has no user row, and get_user,
\* customer_profile and supplier_profile with a valid, permitted token whose
\* user_id has no row, return an explicit error and never crash.
C7_LookupsReportNotFound ==
    /\ last.op \in {"login", "get_user", "customer_profile",
                    "supplier_profile"}
       => last.out.kind # "panic"
    /\ (last.op = "login" /\ ~\E u \in users : u.email = last.arg.email)
       => last.out.kind = "err"

C9_InsertAfterLookupUnconditional ==
    [][\A r \in Reqs :
         (inflight[r].pc = "insert" /\ inflight'[r].pc = "idle") =>
             /\ last'.out.kind = "ok"
             /\ \E u \in users' \ users : u.email = inflight[r].m.email]_vars

C9_Witness ==
    \E u, v \in users :
       /\ u # v
       /\ u.email = v.email
       /\ u.password.enc = "phc"
       /\ v.password.enc = "phc"

====
